---------------------------- MODULE Spec2Model ----------------------------
(***************************************************************************)
(* A model of the GeoTools class (src/GeoTools.py):                        *)
(*   - geocoder_nominatim : the sequential, rate limited geocoding loop    *)
(*   - prepare_folium_map : construction of a folium map (the canvas)      *)
(*   - location_markers   : one marker per row of a geocoding result       *)
(*   - choropleth_layer   : construction of a folium.Choropleth            *)
(*   - get_pdok_data      : load, set crs, reproject, assign geoid         *)
(* Python dictionaries are sets of <<key, value>> pairs, so that the empty *)
(* dictionary {} is the empty set.  Text is modelled by strings.           *)
(***************************************************************************)
EXTENDS Integers, Sequences, FiniteSets, TLC

VARIABLES
    \* ---- geocoder_nominatim
    df,             \* the input dataframe: a sequence of address rows
    gpc,            \* where the call is: "loop", "request", "sleep", "returned", "raised"
    row,            \* number of rows df.iterrows() has handed out
    loc,            \* local variable loc (line 133): <<>> while unbound, <<payload>> once set
    locs_list,      \* local variable locs_list (line 106)
    location_data,  \* what the caller receives: <<>> so far, <<dataframe>> once returned
    log,            \* the geocoding service's view: one entry per request
    inflight,       \* requests issued and not yet answered
    elapsed,        \* whole seconds since the last response returned (saturating)
    interrupts,     \* KeyboardInterrupts delivered to the call
    \* ---- prepare_folium_map / location_markers
    results,        \* the geocoding results the session works on (a list of dicts)
    locations,      \* the dataframe handed to location_markers
    canvases,       \* the folium maps built so far, by identity (position)
    mcall,          \* the last location_markers call and its outcome
    ncalls,         \* number of location_markers calls made
    \* ---- choropleth_layer
    geo_data,       \* the vector layer handed to choropleth_layer
    data,           \* the statistics table handed to choropleth_layer
    choro,          \* the last choropleth_layer call and its result
    \* ---- get_pdok_data
    ppc,            \* where the call is: an element of PdokSteps, "return", "returned", "raised"
    url,            \* the dataset behind the url: whether it can be read, and its size
    crs,            \* the crs argument
    geo_layer       \* local variable geo_layer

gvars == <<df, gpc, row, loc, locs_list, location_data, log, inflight, elapsed, interrupts>>
mvars == <<results, locations, canvases, mcall, ncalls>>
cvars == <<geo_data, data, choro>>
pvars == <<ppc, url, crs, geo_layer>>
vars  == <<gvars, mvars, cvars, pvars>>

----------------------------------------------------------------------------
(* Bounds of the model *)

MaxRecords    == 2   \* rows of the dataframe given to geocoder_nominatim
MaxElapsed    == 2   \* the clock saturates here
MaxInterrupts == 1   \* KeyboardInterrupts delivered to one call
MaxRows       == 3   \* rows of the dataframe given to location_markers
MaxCanvases   == 1   \* folium maps alive in one session
MaxCalls      == 1   \* location_markers calls in one session
MaxFeatures   == 11  \* features of the dataset get_pdok_data reads
MaxRegions    == 3   \* features of the layer given to choropleth_layer
MaxTableRows  == 2   \* rows of the statistics table given to choropleth_layer

(* Program constants *)

SleepSeconds  == 1   \* time.sleep(1)

----------------------------------------------------------------------------
(* Decimal text of a natural number: str(n) / astype(str)                  *)

Digit(d) ==
    CASE d = 0 -> "0" [] d = 1 -> "1" [] d = 2 -> "2" [] d = 3 -> "3"
      [] d = 4 -> "4" [] d = 5 -> "5" [] d = 6 -> "6" [] d = 7 -> "7"
      [] d = 8 -> "8" [] d = 9 -> "9"

RECURSIVE Str(_)
Str(n) == IF n < 10 THEN Digit(n) ELSE Str(n \div 10) \o Digit(n % 10)

----------------------------------------------------------------------------
(* Dictionaries and dataframes                                             *)

EmptyDict == {}

Keys(d) == {kv[1] : kv \in d}

Get(d, k) == (CHOOSE kv \in d : kv[1] = k)[2]

NaN == "NaN"

\* pd.DataFrame(list of dicts): the columns are the union of the keys, every
\* dict is one row, and a key a dict lacks is NaN in its row.
DataFrame(list) ==
    LET cols == UNION {Keys(list[i]) : i \in 1..Len(list)}
    IN  [columns |-> cols,
         rows    |-> [i \in 1..Len(list) |->
                        [c \in cols |-> IF c \in Keys(list[i])
                                        THEN Get(list[i], c) ELSE NaN]]]

----------------------------------------------------------------------------
(* geocoder_nominatim                                                      *)

\* The example rows of UsageExamples.py (Rijksmuseum, John Adams Park).
Addresses ==
    { [Name |-> "Rijksmuseum", Street |-> "", Number |-> "", PostalCode |-> "",
       City |-> "Amsterdam", Country |-> "NL"],
      [Name |-> "", Street |-> "John Adams Park", Number |-> "1",
       PostalCode |-> "2244BZ", City |-> "Wassenaar", Country |-> "NL"] }

RECURSIVE SeqsUpTo(_, _)
SeqsUpTo(S, n) ==
    IF n = 0 THEN {<<>>}
    ELSE LET shorter == SeqsUpTo(S, n - 1)
         IN  shorter \cup {Append(s, x) : s \in shorter, x \in S}

Query(r) ==
    r.Name \o "," \o r.Street \o " " \o r.Number \o "," \o r.PostalCode
           \o "," \o r.City \o "," \o r.Country

\* The .raw payload of a location found by the service.
Raw(lat, lon) == {<<"lat", lat>>, <<"lon", lon>>}

StubPayloads == {Raw("1", "3"), Raw("3", "5")}

\* What one call of app.geocode(query).raw can do: return the payload of a
\* location, find nothing (geocode returns None and .raw raises
\* AttributeError), or raise for a transport error or a malformed response.
Responses ==
    [kind : {"ok"}, raw : StubPayloads]
    \cup [kind : {"nomatch", "transport", "malformed"}, raw : {EmptyDict}]

Pending == [kind |-> "pending", raw |-> EmptyDict]

\* the log once the request in flight, its last entry, has got its outcome
Answered(entries, resp) ==
    LET last == entries[Len(entries)]
    IN  Append(SubSeq(entries, 1, Len(entries) - 1),
               [query |-> last.query, afterOk |-> last.afterOk,
                gap |-> last.gap, resp |-> resp])

ListAppendFront(list, x) == <<x>> \o list

\* locs_list.append(x)
ListAppend(list, x) == Append(list, x)

ExceptReraise == "raised"

\* where the bare except clause leaves the call: in the loop, at the next row
ExceptPc == "loop"

SleepSkipped == TRUE

\* time.sleep(1) returns once a second has passed since the response
SleepOver == elapsed >= SleepSeconds

GeoInit ==
    /\ df \in SeqsUpTo(Addresses, MaxRecords)
    /\ gpc = "loop"
    /\ row = 0
    /\ loc = <<>>
    /\ locs_list = <<>>
    /\ location_data = <<>>
    /\ log = <<>>
    /\ inflight = 0
    /\ elapsed = 0
    /\ interrupts = 0

\* for index, row in df.iterrows(): build the query, create the client and
\* issue the request
IssueRequest ==
    /\ gpc = "loop"
    /\ row < Len(df)
    /\ row' = row + 1
    /\ log' = Append(log, [query |-> Query(df[row + 1]),
                           afterOk |-> (log # <<>> /\ log[Len(log)].resp.kind = "ok"),
                           gap |-> elapsed,
                           resp |-> Pending])
    /\ inflight' = inflight + 1
    /\ gpc' = "request"
    /\ UNCHANGED <<df, loc, locs_list, location_data, elapsed, interrupts>>

\* app.geocode(query).raw returns or raises
Respond ==
    /\ gpc = "request"
    /\ \E resp \in Responses :
        /\ log' = Answered(log, resp)
        /\ inflight' = inflight - 1
        /\ elapsed' = 0
        /\ IF resp.kind = "ok"
           THEN /\ loc' = <<resp.raw>>
                /\ gpc' = "sleep"
                /\ UNCHANGED locs_list
           ELSE /\ locs_list' = ListAppend(locs_list, EmptyDict)
                /\ gpc' = ExceptPc
                /\ UNCHANGED loc
    /\ UNCHANGED <<df, row, location_data, interrupts>>

\* time.sleep(1) returns; locs_list.append(loc)
SleepDone ==
    /\ gpc = "sleep"
    /\ SleepOver
    /\ locs_list' = ListAppend(locs_list, loc[1])
    /\ gpc' = "loop"
    /\ UNCHANGED <<df, row, loc, location_data, log, inflight, elapsed, interrupts>>

\* return pd.DataFrame(locs_list)
GeoReturn ==
    /\ gpc = "loop"
    /\ row = Len(df)
    /\ location_data' = <<DataFrame(locs_list)>>
    /\ gpc' = "returned"
    /\ UNCHANGED <<df, row, loc, locs_list, log, inflight, elapsed, interrupts>>

\* A second passes.  elapsed counts from the last response, so the time a
\* request takes is not counted: its response sets elapsed back to 0.
Tick ==
    /\ gpc \in {"loop", "sleep"}
    /\ elapsed < MaxElapsed
    /\ elapsed' = elapsed + 1
    /\ UNCHANGED <<df, gpc, row, loc, locs_list, location_data, log, inflight, interrupts>>

\* KeyboardInterrupt raised in the call.  Inside the try block (during the
\* request or the sleep) the bare except clause catches it like any other
\* exception; outside it (between rows) it leaves the function, and the
\* caller receives no return value.
Interrupted == [kind |-> "interrupted", raw |-> EmptyDict]

InterruptInRequest ==
    /\ interrupts < MaxInterrupts
    /\ gpc = "request"
    /\ interrupts' = interrupts + 1
    /\ log' = Answered(log, Interrupted)
    /\ inflight' = inflight - 1
    /\ elapsed' = 0
    /\ locs_list' = ListAppend(locs_list, EmptyDict)
    /\ gpc' = ExceptPc
    /\ UNCHANGED <<df, row, loc, location_data>>

InterruptInSleep ==
    /\ interrupts < MaxInterrupts
    /\ gpc = "sleep"
    /\ interrupts' = interrupts + 1
    /\ locs_list' = ListAppend(locs_list, EmptyDict)
    /\ gpc' = ExceptPc
    /\ UNCHANGED <<df, row, loc, location_data, log, inflight, elapsed>>

InterruptBetweenRows ==
    /\ interrupts < MaxInterrupts
    /\ gpc = "loop"
    /\ interrupts' = interrupts + 1
    /\ gpc' = "raised"
    /\ UNCHANGED <<df, row, loc, locs_list, location_data, log, inflight, elapsed>>

----------------------------------------------------------------------------
(* Numbers: a float is an exact fraction <<numerator, denominator>> in     *)
(* lowest terms; float("nan") is <<0, 0>>; None is the empty tuple.        *)

None == <<>>

NaNnum == <<0, 0>>

RECURSIVE Gcd(_, _)
Gcd(a, b) == IF b = 0 THEN a ELSE Gcd(b, a % b)

Fraction(n, d) == LET g == Gcd(n, d) IN <<n \div g, d \div g>>

\* pd.to_numeric on one cell: the number the text spells, NaN for a missing cell
ToNumeric(s) ==
    IF s = NaN THEN NaNnum
    ELSE <<CHOOSE n \in 0..9 : Str(n) = s, 1>>

RECURSIVE SumNum(_)
SumNum(xs) == IF xs = <<>> THEN 0 ELSE Head(xs)[1] + SumNum(Tail(xs))

IsNumber(x) == x # NaNnum

MeanOverAllRows(xs) ==
    IF xs = <<>> THEN NaNnum
    ELSE Fraction(SumNum(SelectSeq(xs, IsNumber)), Len(xs))

\* Series.mean(): NaN cells are skipped (skipna=True); NaN when nothing is left
Mean(xs) ==
    LET present == SelectSeq(xs, IsNumber)
    IN  IF present = <<>> THEN NaNnum
        ELSE Fraction(SumNum(present), Len(present))

\* pd.to_numeric(locations[column])
NumericColumn(frame, column) ==
    [i \in 1..Len(frame.rows) |-> ToNumeric(frame.rows[i][column])]

----------------------------------------------------------------------------
(* prepare_folium_map                                                      *)

DefaultCenter == <<"41.000150980792405", "34.99998540139929">>

Widget(kind) == [kind |-> kind, location |-> None]

FullscreenChild(fullscreen) ==
    IF fullscreen THEN <<Widget("Fullscreen")>> ELSE <<>>

\* folium.LayerControl().add_to(folium_map): whatever layercontrol says
LayerControlChild(layercontrol) == <<Widget("LayerControl")>>

\* The folium map the function returns.  requested records the arguments of
\* the call; it is not part of the folium object.
PrepareFoliumMap(centerpoint_lat, centerpoint_lon, tile_name, layercontrol, fullscreen) ==
    [location      |-> IF centerpoint_lat = None THEN DefaultCenter
                       ELSE <<centerpoint_lat, centerpoint_lon>>,
     tiles         |-> tile_name,
     zoom_start    |-> 7,
     control_scale |-> TRUE,
     control       |-> FALSE,
     children      |-> FullscreenChild(fullscreen) \o LayerControlChild(layercontrol),
     requested     |-> [layercontrol |-> layercontrol, fullscreen |-> fullscreen]]

----------------------------------------------------------------------------
(* location_markers                                                        *)

GeocodeResults == StubPayloads \cup {EmptyDict}

\* folium.Marker(location=[row[latitude], row[longitude]], ...)
Marker(frameRow, latitude, longitude) ==
    [kind |-> "Marker",
     location |-> <<ToNumeric(frameRow[latitude]), ToNumeric(frameRow[longitude])>>]

\* Is the marker of this row refused?  row[latitude] raises KeyError when the
\* frame has no such column; folium refuses a NaN location with ValueError in
\* the releases that validate locations (nanRaises) and accepts it in the others.
RowError(frame, i, latitude, longitude, nanRaises) ==
    IF ~ {latitude, longitude} \subseteq frame.columns THEN "KeyError"
    ELSE IF nanRaises /\ NaN \in {frame.rows[i][latitude], frame.rows[i][longitude]}
         THEN "ValueError"
         ELSE ""

\* The rows the marker loop gets through: all of them, or those before the
\* first one that raises.
RowsDone(frame, latitude, longitude, nanRaises) ==
    LET bad == {i \in 1..Len(frame.rows) :
                    RowError(frame, i, latitude, longitude, nanRaises) # ""}
    IN  IF bad = {} THEN Len(frame.rows)
        ELSE (CHOOSE i \in bad : \A j \in bad : i <= j) - 1

LoopError(frame, latitude, longitude, nanRaises) ==
    LET done == RowsDone(frame, latitude, longitude, nanRaises)
    IN  IF done = Len(frame.rows) THEN ""
        ELSE RowError(frame, done + 1, latitude, longitude, nanRaises)

MarkersOf(frame, latitude, longitude, nanRaises) ==
    [i \in 1..RowsDone(frame, latitude, longitude, nanRaises) |->
        Marker(frame.rows[i], latitude, longitude)]

NoCall == [status |-> "none", add_to_existing_map |-> FALSE, map_to_use |-> 0,
           created |-> 0, ret |-> 0, error |-> "", before |-> <<>>]

MapInit ==
    /\ results \in SeqsUpTo(GeocodeResults, MaxRows)
    /\ locations = DataFrame(results)
    /\ canvases = <<>>
    /\ mcall = NoCall
    /\ ncalls = 0

\* m = gt.prepare_folium_map(...)
CallPrepareFoliumMap ==
    /\ Len(canvases) < MaxCanvases
    /\ \E center \in {<<None, None>>, <<<<52, 1>>, <<5, 1>>>>},
          tile_name \in {"openstreetmap"},
          layercontrol \in BOOLEAN, fullscreen \in BOOLEAN :
        canvases' = Append(canvases,
            PrepareFoliumMap(center[1], center[2], tile_name, layercontrol, fullscreen))
    /\ UNCHANGED <<results, locations, mcall, ncalls>>

\* gt.location_markers(locations, "lat", "lon", add_to_existing_map=True, map_to_use=m)
MarkersOnExistingMap ==
    /\ ncalls < MaxCalls
    /\ \E m \in 1..Len(canvases), nanRaises \in BOOLEAN :
        LET error == LoopError(locations, "lat", "lon", nanRaises)
        IN  /\ canvases' = [canvases EXCEPT ![m].children =
                                @ \o MarkersOf(locations, "lat", "lon", nanRaises)]
            /\ mcall' = [status |-> IF error = "" THEN "returned" ELSE "raised",
                         add_to_existing_map |-> TRUE, map_to_use |-> m,
                         created |-> 0,
                         ret |-> IF error = "" THEN m ELSE 0,
                         error |-> error,
                         before |-> <<canvases[m]>>]
    /\ ncalls' = ncalls + 1
    /\ UNCHANGED <<results, locations>>

\* gt.location_markers(locations, "lat", "lon")
MarkersOnNewMap ==
    /\ ncalls < MaxCalls
    /\ Len(canvases) < MaxCanvases
    /\ \E nanRaises \in BOOLEAN :
        IF ~ {"lat", "lon"} \subseteq locations.columns
        THEN \* locations[latitude] raises KeyError before any map exists
             /\ mcall' = [NoCall EXCEPT !.status = "raised", !.error = "KeyError"]
             /\ UNCHANGED canvases
        ELSE LET m == Len(canvases) + 1
                 base == PrepareFoliumMap(Mean(NumericColumn(locations, "lat")),
                                          Mean(NumericColumn(locations, "lon")),
                                          "openstreetmap", TRUE, TRUE)
                 error == LoopError(locations, "lat", "lon", nanRaises)
             IN  /\ canvases' = Append(canvases,
                        [base EXCEPT !.children =
                            @ \o MarkersOf(locations, "lat", "lon", nanRaises)])
                 /\ mcall' = [status |-> IF error = "" THEN "returned" ELSE "raised",
                              add_to_existing_map |-> FALSE, map_to_use |-> 0,
                              created |-> m,
                              ret |-> IF error = "" THEN m ELSE 0,
                              error |-> error,
                              before |-> <<base>>]
    /\ ncalls' = ncalls + 1
    /\ UNCHANGED <<results, locations>>

----------------------------------------------------------------------------
(* get_pdok_data                                                           *)

WorkingProjection == "merc"

KnownCrs == {"EPSG:28992", "EPSG:4326"}

NoLayer == [crs |-> "unset", from_crs |-> "unset", columns |-> {}, rows |-> <<>>]

\* gpd.read_file(url): n features under a RangeIndex 0..n-1, geometries in
\* the coordinates of the source, one attribute column of the dataset
ReadFile(n) ==
    [crs      |-> "unset",
     from_crs |-> "unset",
     columns  |-> {"statcode", "geometry"},
     rows     |-> [i \in 1..n |-> [index    |-> i - 1,
                                   geometry |-> "native",
                                   statcode |-> "GM" \o Str(i),
                                   geoid    |-> NaN]]]

\* geo_layer.crs = crs
SetCrs(layer, c) == [layer EXCEPT !.crs = c]

\* geo_layer.to_crs({"proj": "merc"}): every geometry is transformed from the
\* layer's crs; index and attributes are kept.  from_crs records what the
\* geometries were transformed from.
ToCrs(layer) ==
    [layer EXCEPT !.from_crs = layer.crs,
                  !.crs = WorkingProjection,
                  !.rows = [i \in 1..Len(layer.rows) |->
                               [layer.rows[i] EXCEPT !.geometry = WorkingProjection]]]

\* geo_layer["geoid"] = geo_layer.index.astype(str)
AssignGeoid(layer) ==
    [layer EXCEPT !.columns = @ \cup {"geoid"},
                  !.rows = [i \in 1..Len(layer.rows) |->
                               [layer.rows[i] EXCEPT !.geoid = Str(layer.rows[i].index)]]]

PdokStepsGeoidFirst == <<"read_file", "geoid", "set_crs", "to_crs">>

\* the statements of the function body, in program order
PdokSteps == <<"read_file", "set_crs", "to_crs", "geoid">>

StepAfter(step) ==
    LET k == CHOOSE i \in 1..Len(PdokSteps) : PdokSteps[i] = step
    IN  IF k = Len(PdokSteps) THEN "return" ELSE PdokSteps[k + 1]

ApplyStep(step, layer, n, c) ==
    CASE step = "read_file" -> ReadFile(n)
      [] step = "set_crs"   -> SetCrs(layer, c)
      [] step = "to_crs"    -> ToCrs(layer)
      [] step = "geoid"     -> AssignGeoid(layer)

RECURSIVE RunSteps(_, _, _, _)
RunSteps(steps, layer, n, c) ==
    IF steps = <<>> THEN layer
    ELSE RunSteps(Tail(steps), ApplyStep(Head(steps), layer, n, c), n, c)

\* the layer a call that does not raise returns
GetPdokData(n, c) == RunSteps(PdokSteps, NoLayer, n, c)

PdokInit ==
    /\ url \in [available : BOOLEAN, n : 0..MaxFeatures]
    /\ (~ url.available => url.n = 0)
    /\ crs \in KnownCrs \cup {"bogus"}
    /\ ppc = PdokSteps[1]
    /\ geo_layer = NoLayer

\* geo_layer = gpd.read_file(url)
PdokReadFile ==
    /\ ppc = "read_file"
    /\ IF url.available
       THEN /\ geo_layer' = ApplyStep(ppc, geo_layer, url.n, crs)
            /\ ppc' = StepAfter(ppc)
       ELSE /\ ppc' = "raised"
            /\ UNCHANGED geo_layer
    /\ UNCHANGED <<url, crs>>

\* geo_layer.crs = crs
PdokSetCrs ==
    /\ ppc = "set_crs"
    /\ IF crs \in KnownCrs
       THEN /\ geo_layer' = ApplyStep(ppc, geo_layer, url.n, crs)
            /\ ppc' = StepAfter(ppc)
       ELSE /\ ppc' = "raised"
            /\ UNCHANGED geo_layer
    /\ UNCHANGED <<url, crs>>

\* geo_layer = geo_layer.to_crs({"proj": "merc"})
PdokToCrs ==
    /\ ppc = "to_crs"
    /\ IF geo_layer.crs \in KnownCrs
       THEN /\ geo_layer' = ApplyStep(ppc, geo_layer, url.n, crs)
            /\ ppc' = StepAfter(ppc)
       ELSE \* a layer without crs cannot be transformed
            /\ ppc' = "raised"
            /\ UNCHANGED geo_layer
    /\ UNCHANGED <<url, crs>>

\* geo_layer["geoid"] = geo_layer.index.astype(str)
PdokGeoid ==
    /\ ppc = "geoid"
    /\ geo_layer' = ApplyStep(ppc, geo_layer, url.n, crs)
    /\ ppc' = StepAfter(ppc)
    /\ UNCHANGED <<url, crs>>

\* return geo_layer
PdokReturn ==
    /\ ppc = "return"
    /\ ppc' = "returned"
    /\ UNCHANGED <<url, crs, geo_layer>>

----------------------------------------------------------------------------
(* choropleth_layer                                                        *)

\* The GeoJSON folium draws from a GeoDataFrame: the id of a feature is the
\* text of its index label, its properties are the attribute columns.
GeoJson(layer) ==
    [i \in 1..Len(layer.rows) |->
        [id         |-> Str(layer.rows[i].index),
         properties |-> [c \in layer.columns \ {"geometry"} |-> layer.rows[i][c]]]]

KeyOnRawAttribute == "feature.properties.statcode"

\* key_on="feature.id"
KeyOn == "feature.id"

\* show=True
ShowPassed(show) == TRUE

\* the key folium reads off a feature by following key_on
FeatureKey(feature, key_on) ==
    CASE key_on = "feature.id" -> feature.id
      [] key_on = "feature.properties.statcode" -> feature.properties["statcode"]

\* folium.Choropleth(...): the keyword arguments as the function passes them
Choropleth(geo, table, columns, fill_color, nan_fill_color, legend_name, name, highlight, control, overlay, show) ==
    [geo_data       |-> GeoJson(geo),
     data           |-> table,
     columns        |-> columns,
     key_on         |-> KeyOn,
     fill_color     |-> fill_color,
     nan_fill_color |-> nan_fill_color,
     legend_name    |-> legend_name,
     name           |-> name,
     highlight      |-> highlight,
     control        |-> control,
     overlay        |-> overlay,
     show           |-> ShowPassed(show)]

\* The fill of one feature of a choropleth: by the value of the table row
\* whose key column equals the feature's key (the last such row, as a
\* dictionary built from the rows keeps it), by nan_fill_color without one.
FeatureStyle(layer, i) ==
    LET key     == FeatureKey(layer.geo_data[i], layer.key_on)
        matches == {r \in 1..Len(layer.data) : layer.data[r][layer.columns[1]] = key}
    IN  IF matches = {}
        THEN [by |-> "nan_fill_color", color |-> layer.nan_fill_color, value |-> 0]
        ELSE LET r == CHOOSE m \in matches : \A o \in matches : o <= m
             IN  [by |-> "value", color |-> layer.fill_color,
                  value |-> layer.data[r][layer.columns[2]]]

KeyPool == {"0", "2", "3", "GM1"}

TableRows == [region : KeyPool, value : {10, 30}]

NoChoro == [status |-> "none",
            args   |-> [highlight |-> TRUE, control |-> TRUE, overlay |-> FALSE, show |-> TRUE],
            layer  |-> Choropleth(NoLayer, <<>>, <<"region", "value">>, "", "", "", "",
                                  TRUE, TRUE, FALSE, TRUE)]

ChoroInit ==
    /\ geo_data \in {GetPdokData(n, "EPSG:28992") : n \in 0..MaxRegions}
    /\ data \in SeqsUpTo(TableRows, MaxTableRows)
    /\ choro = NoChoro

\* gt.choropleth_layer(geo_data, data, columns, ..., highlight, control, overlay, show)
CallChoroplethLayer ==
    /\ \E highlight \in BOOLEAN, control \in BOOLEAN, overlay \in BOOLEAN, show \in BOOLEAN :
        choro' = [status |-> "built",
                  args   |-> [highlight |-> highlight, control |-> control,
                              overlay |-> overlay, show |-> show],
                  layer  |-> Choropleth(geo_data, data, <<"region", "value">>,
                                        "YlGn", "gray", "Inhabitants", "cbs",
                                        highlight, control, overlay, show)]
    /\ UNCHANGED <<geo_data, data>>

----------------------------------------------------------------------------
(* Specifications: one per operation of the class.  The variables of the   *)
(* other operations rest at their idle values.                             *)

GeoIdle ==
    /\ df = <<>> /\ gpc = "idle" /\ row = 0 /\ loc = <<>> /\ locs_list = <<>>
    /\ location_data = <<>> /\ log = <<>> /\ inflight = 0 /\ elapsed = 0
    /\ interrupts = 0

MapIdle ==
    /\ results = <<>> /\ locations = DataFrame(<<>>) /\ canvases = <<>>
    /\ mcall = NoCall /\ ncalls = 0

ChoroIdle == geo_data = NoLayer /\ data = <<>> /\ choro = NoChoro

PdokIdle ==
    /\ ppc = "idle" /\ url = [available |-> FALSE, n |-> 0] /\ crs = "bogus"
    /\ geo_layer = NoLayer

\* geocoder_nominatim, run to completion
Init == GeoInit /\ MapIdle /\ ChoroIdle /\ PdokIdle

Next ==
    \/ IssueRequest /\ UNCHANGED <<mvars, cvars, pvars>>
    \/ Respond /\ UNCHANGED <<mvars, cvars, pvars>>
    \/ SleepDone /\ UNCHANGED <<mvars, cvars, pvars>>
    \/ GeoReturn /\ UNCHANGED <<mvars, cvars, pvars>>
    \/ Tick /\ UNCHANGED <<mvars, cvars, pvars>>

Spec == Init /\ [][Next]_vars

\* geocoder_nominatim with KeyboardInterrupt (Ctrl-C) delivered to it
NextCancel ==
    \/ Next
    \/ InterruptInRequest /\ UNCHANGED <<mvars, cvars, pvars>>
    \/ InterruptInSleep /\ UNCHANGED <<mvars, cvars, pvars>>
    \/ InterruptBetweenRows /\ UNCHANGED <<mvars, cvars, pvars>>

SpecCancel == Init /\ [][NextCancel]_vars

\* prepare_folium_map and location_markers on one geocoding result
InitMap == MapInit /\ GeoIdle /\ ChoroIdle /\ PdokIdle

NextMap ==
    \/ CallPrepareFoliumMap /\ UNCHANGED <<gvars, cvars, pvars>>
    \/ MarkersOnExistingMap /\ UNCHANGED <<gvars, cvars, pvars>>
    \/ MarkersOnNewMap /\ UNCHANGED <<gvars, cvars, pvars>>

SpecMap == InitMap /\ [][NextMap]_vars

\* choropleth_layer on a loaded layer and a statistics table
InitChoro == ChoroInit /\ GeoIdle /\ MapIdle /\ PdokIdle

NextChoro == CallChoroplethLayer /\ UNCHANGED <<gvars, mvars, pvars>>

SpecChoro == InitChoro /\ [][NextChoro]_vars

\* get_pdok_data, statement by statement
InitPdok == PdokInit /\ GeoIdle /\ MapIdle /\ ChoroIdle

NextPdok ==
    \/ PdokReadFile /\ UNCHANGED <<gvars, mvars, cvars>>
    \/ PdokSetCrs /\ UNCHANGED <<gvars, mvars, cvars>>
    \/ PdokToCrs /\ UNCHANGED <<gvars, mvars, cvars>>
    \/ PdokGeoid /\ UNCHANGED <<gvars, mvars, cvars>>
    \/ PdokReturn /\ UNCHANGED <<gvars, mvars, cvars>>

SpecPdok == InitPdok /\ [][NextPdok]_vars

----------------------------------------------------------------------------
(* Properties                                                              *)

Failures == {"nomatch", "transport", "malformed"}

\* Row i of a dataframe is the outcome of a geocoding attempt: the payload's
\* values when the attempt found a location, nothing but NaN when it failed.
RowIsOutcome(frame, i, resp) ==
    IF resp.kind = "ok"
    THEN \A kv \in resp.raw : kv[1] \in frame.columns /\ frame.rows[i][kv[1]] = kv[2]
    ELSE \A c \in frame.columns : frame.rows[i][c] = NaN

\* C1: geocoder_nominatim returns exactly one result per input row, and the
\* result at position i is the outcome of the one request made for row i,
\* whatever the pattern of successes and failures.
C1_OneResultPerRecordInOrder ==
    gpc = "returned" =>
        /\ Len(location_data[1].rows) = Len(df)
        /\ Len(log) = Len(df)
        /\ \A i \in 1..Len(df) :
            /\ log[i].query = Query(df[i])
            /\ RowIsOutcome(location_data[1], i, log[i].resp)

C1_Witness ==
    /\ gpc = "returned"
    /\ Len(df) = 2
    /\ df[1] # df[2]
    /\ log[1].resp.kind = "ok"
    /\ log[2].resp.kind \in Failures
    /\ location_data[1].rows[1]["lat"] = Get(log[1].resp.raw, "lat")
    /\ location_data[1].rows[2]["lat"] = NaN

\* C2: a failed attempt of any kind puts the empty entry at its own position,
\* never leaves the function as an exception, never ends the loop early, and
\* the entries of the attempts that succeeded are their payloads whatever
\* failed around them.
C2_FailureIsolated ==
    /\ gpc # "raised"
    /\ \A i \in 1..Len(log) :
        log[i].resp.kind \in Failures =>
            /\ Len(locs_list) >= i
            /\ locs_list[i] = EmptyDict
    /\ \A j \in 1..Len(locs_list) :
        log[j].resp.kind = "ok" => locs_list[j] = log[j].resp.raw
    /\ (gpc = "returned" => row = Len(df) /\ Len(locs_list) = Len(df))

C2_Witness ==
    /\ gpc = "returned"
    /\ \E i \in 1..Len(log), j \in 1..Len(log) :
        /\ i < j
        /\ log[i].resp.kind \in Failures
        /\ log[j].resp.kind = "ok"
        /\ locs_list[j] # EmptyDict

\* C3 (as claimed): an interruption takes effect only between rows, never
\* during a request; the call then still hands its caller the results made
\* so far, and no result that was found is lost or turned into an empty one.
\* Stated for interruptions after at least one request was issued.
C3_InterruptKeepsResults ==
    (interrupts > 0 /\ log # <<>>) =>
        /\ gpc # "raised"
        /\ \A i \in 1..Len(log) : log[i].resp.kind # "interrupted"
        /\ \A i \in 1..Len(locs_list) :
            log[i].resp.kind = "ok" => locs_list[i] = log[i].resp.raw

C5_LayerControlLast ==
    \A m \in 1..Len(canvases) :
        LET ch == canvases[m].children
        IN  \A i \in 1..Len(ch) :
                ch[i].kind = "LayerControl" =>
                    /\ canvases[m].requested.layercontrol
                    /\ \A j \in (i + 1)..Len(ch) : ch[j].kind # "Marker"

IsResolved(d) == d # EmptyDict

TextValue(s) == CHOOSE n \in 0..9 : Str(n) = s

ResolvedMarkers ==
    LET found == SelectSeq(results, IsResolved)
    IN  [i \in 1..Len(found) |->
            [kind |-> "Marker",
             location |-> << <<TextValue(Get(found[i], "lat")), 1>>,
                             <<TextValue(Get(found[i], "lon")), 1>> >>]]

AttachedByCall ==
    LET ch == canvases[mcall.ret].children
    IN  SubSeq(ch, Len(mcall.before[1].children) + 1, Len(ch))

\* C6 (as claimed): location_markers never raises on geocoding results, and
\* the markers it attaches are those of the results that were found, in
\* input order, at their coordinates; none for the empty results.
C6_MarkersOnlyForResolved ==
    mcall.status # "none" =>
        /\ mcall.status = "returned"
        /\ AttachedByCall = ResolvedMarkers

RECURSIVE SumOf(_, _)
SumOf(ds, key) ==
    IF ds = <<>> THEN 0 ELSE TextValue(Get(Head(ds), key)) + SumOf(Tail(ds), key)

ResolvedMean(key) ==
    LET found == SelectSeq(results, IsResolved)
        g == Gcd(SumOf(found, key), Len(found))
    IN  <<SumOf(found, key) \div g, Len(found) \div g>>

\* C7: a map that location_markers creates is centred at the mean latitude
\* and mean longitude of the results that were found, the empty results
\* leaving it where it is; a map that is passed in is the map returned, with
\* its centre as it was.
C7_CenterIsMeanOfResolved ==
    /\ mcall.created # 0 =>
          canvases[mcall.created].location = <<ResolvedMean("lat"), ResolvedMean("lon")>>
    /\ (mcall.status = "returned" /\ mcall.add_to_existing_map) =>
          /\ mcall.ret = mcall.map_to_use
          /\ canvases[mcall.ret].location = mcall.before[1].location

C7_Witness ==
    /\ mcall.created # 0
    /\ mcall.status = "returned"
    /\ Len(results) = 3
    /\ results[1] = Raw("1", "3")
    /\ results[2] = EmptyDict
    /\ results[3] = Raw("3", "5")
    /\ canvases[mcall.created].location = << <<2, 1>>, <<4, 1>> >>

\* C8 (as claimed): each of the four flags of the layer choropleth_layer
\* returns is the value the caller passed for it.
C8_FlagsAsGiven ==
    choro.status = "built" =>
        /\ choro.layer.highlight = choro.args.highlight
        /\ choro.layer.control = choro.args.control
        /\ choro.layer.overlay = choro.args.overlay
        /\ choro.layer.show = choro.args.show

UniqueKeys(table) ==
    \A r1 \in 1..Len(table), r2 \in 1..Len(table) :
        table[r1].region = table[r2].region => r1 = r2

MatchedRows ==
    {r \in 1..Len(data) :
        \E f \in 1..Len(geo_data.rows) : geo_data.rows[f].geoid = data[r].region}

\* C9: the layer is keyed on feature.id, which is the geoid get_pdok_data
\* assigned: with unique keys in the table and m rows matching a geoid, m of
\* the k features are filled by their row's value and the other k - m by
\* nan_fill_color.
C9_JoinOnFeatureId ==
    (choro.status = "built" /\ UniqueKeys(data)) =>
        LET k == Len(geo_data.rows)
            byValue == {f \in 1..Len(choro.layer.geo_data) :
                            FeatureStyle(choro.layer, f).by = "value"}
            byNan   == {f \in 1..Len(choro.layer.geo_data) :
                            /\ FeatureStyle(choro.layer, f).by = "nan_fill_color"
                            /\ FeatureStyle(choro.layer, f).color = choro.layer.nan_fill_color}
        IN  /\ choro.layer.key_on = "feature.id"
            /\ Len(choro.layer.geo_data) = k
            /\ Cardinality(byValue) = Cardinality(MatchedRows)
            /\ Cardinality(byNan) = k - Cardinality(MatchedRows)
            /\ \A f \in 1..k, r \in 1..Len(data) :
                geo_data.rows[f].geoid = data[r].region =>
                    FeatureStyle(choro.layer, f).value = data[r].value

C9_Witness ==
    /\ choro.status = "built"
    /\ Len(geo_data.rows) = 3
    /\ data = <<[region |-> "0", value |-> 10], [region |-> "2", value |-> 30]>>
    /\ FeatureStyle(choro.layer, 1).value = 10
    /\ FeatureStyle(choro.layer, 2).by = "nan_fill_color"
    /\ FeatureStyle(choro.layer, 3).value = 30

\* C10: the geoid column exists only on a layer that was given the crs
\* argument and then reprojected to the working projection, and the layer
\* returned has the geoids "0", "1", ..., "n-1" in load order, all distinct.
C10_GeoidIsIndexAfterReprojection ==
    /\ "geoid" \in geo_layer.columns =>
        /\ geo_layer.from_crs = crs
        /\ geo_layer.crs = WorkingProjection
        /\ \A i \in 1..Len(geo_layer.rows) : geo_layer.rows[i].geometry = WorkingProjection
    /\ ppc = "returned" =>
        /\ "geoid" \in geo_layer.columns
        /\ Len(geo_layer.rows) = url.n
        /\ \A i \in 1..url.n : geo_layer.rows[i].geoid = Str(i - 1)
        /\ \A i \in 1..url.n, j \in 1..url.n :
            geo_layer.rows[i].geoid = geo_layer.rows[j].geoid => i = j

C10_Witness ==
    /\ ppc = "returned"
    /\ url.n = 11
    /\ geo_layer.rows[1].geoid = "0"
    /\ geo_layer.rows[11].geoid = "10"
    /\ geo_layer.rows[11].geometry = WorkingProjection

=============================================================================
